---- MODULE Spec2Model ----
(***************************************************************************)
(* RFID "vinyl player": the tick loop of main.cpp (volume control, card    *)
(* detection, debounced card removal) with its collaborators RfidReader,   *)
(* CardRouter and AudioPlayer.                                             *)
(*                                                                         *)
(* Strings that the program builds or compares character by character      *)
(* (card UIDs) are sequences of one-character strings; AT commands are     *)
(* strings.                                                                *)
(***************************************************************************)
EXTENDS Integers, Sequences, FiniteSets, TLC

VARIABLES
    pc,           \* "setup" before setup() has run, "loop" afterwards
    ready,        \* AudioPlayer::_ready
    currentUID,   \* main.cpp currentUID
    lastVolume,   \* main.cpp lastVolume
    isPlaying,    \* main.cpp isPlaying
    missedReads,  \* main.cpp missedReads
    sent,         \* AT commands written to Serial1 during the last step
    calls,        \* AudioPlayer methods main.cpp called during the last step
    pot,          \* <<analogRead(POT_PIN)>> of the last loop() pass, <<>> before it
    sample,       \* result of rfid.readCard() in the last loop() pass
    prev,         \* the state variables of main.cpp before the last step
    lastSeen,     \* observer: UID of the most recent present sample
    absentRun,    \* observer: absent samples since the most recent present one
    sameRun,      \* observer: length of the current run of equal present samples
    lastPlayback, \* observer: the most recent playTrack/pause call, or "none"
    lastTrack,    \* observer: argument of the most recent playTrack call, or 0
    beginResult,  \* <<value returned by audio.begin()>>, <<>> before the call
    deviceUp,     \* environment: the DFPlayer is connected and initializes
    devPlaying,   \* environment: the DFPlayer is playing
    twin          \* the variables of main.cpp in a second run that reads the
                  \* same inputs but whose audio object reports the opposite
                  \* readiness

vars == <<pc, ready, currentUID, lastVolume, isPlaying, missedReads, sent,
          calls, pot, sample, prev, lastSeen, absentRun, sameRun, lastPlayback,
          lastTrack, beginResult, deviceUp, devPlaying, twin>>

----------------------------------------------------------------------------
(* Program constants                                                       *)

MIN_VOLUME == 1
MAX_VOLUME == 25
REMOVAL_THRESHOLD == 5
ADC_IN_MAX == 1023
INIT_VOLUME == 15
DF_MAX_VOLUME == 30

\* lastVolume initialized to the lowest volume instead of a sentinel
LastVolumeInit_MinVolume == MIN_VOLUME

LAST_VOLUME_INIT == -1

(* Bounds of the model                                                     *)

\* the observer absentRun stops counting MaxRunSlack past the removal
\* threshold
MaxRunSlack == 2

MaxRun == REMOVAL_THRESHOLD + MaxRunSlack

\* the observer sameRun stops counting at MaxSameRun
MaxSameRun == 3

\* raw potentiometer readings the loop is driven with: both ends of the
\* ADC range, a second reading that maps to the same volume as 0, and the
\* first reading of the next volume step
PotReadings == {0, 42, 43, ADC_IN_MAX}

\* readings above the 10-bit range, as analogRead returns them when the
\* 12-bit ADC is read at a resolution above 10 bits
HighReadings == {1024, 1066, 4095}

\* UID bytes of the cards put on the reader: two cards of the routing
\* table and one unknown 7-byte card with a byte that needs a leading zero
CardBytes ==
    { <<193, 152, 204, 228>>,
      <<193, 158, 204, 228>>,
      <<4, 161, 178, 195, 212, 229, 246>> }

----------------------------------------------------------------------------
(* Arduino String helpers                                                  *)

HexDigitsLower ==
    <<"0", "1", "2", "3", "4", "5", "6", "7",
      "8", "9", "a", "b", "c", "d", "e", "f">>

LowerLetters == <<"a", "b", "c", "d", "e", "f", "g", "h", "i", "j", "k", "l", "m",
                  "n", "o", "p", "q", "r", "s", "t", "u", "v", "w", "x", "y", "z">>

UpperLetters == <<"A", "B", "C", "D", "E", "F", "G", "H", "I", "J", "K", "L", "M",
                  "N", "O", "P", "Q", "R", "S", "T", "U", "V", "W", "X", "Y", "Z">>

\* String(b, HEX): lowercase hexadecimal without leading zeros
StringHex(b) ==
    IF b < 16 THEN <<HexDigitsLower[b + 1]>>
    ELSE <<HexDigitsLower[(b \div 16) + 1], HexDigitsLower[(b % 16) + 1]>>

\* String::toUpperCase on one character
UpperChar(c) ==
    IF \E i \in 1..Len(LowerLetters) : LowerLetters[i] = c
    THEN UpperLetters[CHOOSE i \in 1..Len(LowerLetters) : LowerLetters[i] = c]
    ELSE c

toUpperCase(s) == [i \in 1..Len(s) |-> UpperChar(s[i])]

----------------------------------------------------------------------------
(* RfidReader                                                              *)

\* the body of the for loop of readCard for byte i of the UID
UidByteText(bytes, i) ==
    (IF bytes[i] < 16 THEN <<"0">> ELSE <<>>)
        \o StringHex(bytes[i])
        \o (IF i < Len(bytes) THEN <<":">> ELSE <<>>)

RECURSIVE UidText(_, _)
UidText(bytes, i) ==
    IF i > Len(bytes) THEN <<>>
    ELSE UidByteText(bytes, i) \o UidText(bytes, i + 1)

\* uidOut of a successful readCard
FormatUid(bytes) == toUpperCase(UidText(bytes, 1))

EmptyString == <<>>

\* the outcomes of readCard: (false, "") when PICC_IsNewCardPresent or
\* PICC_ReadCardSerial fails, (true, formatted UID) otherwise
NoCard == [present |-> FALSE, uid |-> EmptyString]

CardRead(bytes) == [present |-> TRUE, uid |-> FormatUid(bytes)]

\* what readCard returns for the cards put on the reader
CardSamples == {CardRead(bytes) : bytes \in CardBytes}

----------------------------------------------------------------------------
(* CardRouter                                                              *)

UID_TRACK_1 == <<"C", "1", ":", "9", "E", ":", "C", "C", ":", "E", "4">>
UID_TRACK_2 == <<"B", "1", ":", "A", "0", ":", "C", "C", ":", "E", "4">>
UID_TRACK_3 == <<"E", "1", ":", "9", "6", ":", "C", "C", ":", "E", "4">>
UID_TRACK_4 == <<"9", "1", ":", "A", "2", ":", "C", "C", ":", "E", "4">>
UID_TRACK_5 == <<"F", "1", ":", "9", "4", ":", "C", "C", ":", "E", "4">>
UID_TRACK_6 == <<"C", "1", ":", "9", "8", ":", "C", "C", ":", "E", "4">>

trackForUID(uid) ==
    IF uid = UID_TRACK_1 THEN 1
    ELSE IF uid = UID_TRACK_2 THEN 2
    ELSE IF uid = UID_TRACK_3 THEN 3
    ELSE IF uid = UID_TRACK_4 THEN 4
    ELSE IF uid = UID_TRACK_5 THEN 5
    ELSE IF uid = UID_TRACK_6 THEN 6
    ELSE 0

----------------------------------------------------------------------------
(* AudioPlayer: each method is the sequence of AT commands it sends        *)

sendATCommand(cmd) == <<cmd>>

\* the uint8_t parameter of setVolume
Uint8(n) == n % 256

setVolume(vol) ==
    LET v == IF Uint8(vol) > DF_MAX_VOLUME THEN DF_MAX_VOLUME ELSE Uint8(vol)
    IN  sendATCommand("AT+VOL=" \o ToString(v))

playFile(path) == sendATCommand("AT+PLAYFILE=" \o path)

TrackFileName(track) ==
    "/" \o (IF track < 10 THEN "000"
            ELSE IF track < 100 THEN "00"
            ELSE IF track < 1000 THEN "0"
            ELSE "")
        \o ToString(track) \o ".mp3"

\* playTrack that does not re-send the loop mode after starting the file
playTrack_NoLoopMode(track) ==
    IF track = 0 THEN <<>>
    ELSE playFile(TrackFileName(track))

playTrack(track) ==
    IF track = 0 THEN <<>>
    ELSE playFile(TrackFileName(track)) \o sendATCommand("AT+PLAYMODE=1")

pause == sendATCommand("AT+PLAY=PP")

\* the commands begin() sends
beginCommands ==
    sendATCommand("AT+FUNCTION=MUSIC")
        \o sendATCommand("AT+PLAYMODE=1")
        \o setVolume(INIT_VOLUME)

\* begin() with the DFPlayer connected (up) or not: the new _ready, the
\* value returned and the commands sent
begin(up) == [ready |-> TRUE, result |-> TRUE, sent |-> beginCommands]

\* the DFPlayer as AudioPlayer.h documents its commands: AT+PLAYFILE plays a
\* file, AT+PLAY=PP toggles play/pause, the others leave playback alone
IsPlayFileCommand(cmd) ==
    Len(cmd) >= Len("AT+PLAYFILE=")
        /\ SubSeq(cmd, 1, Len("AT+PLAYFILE=")) = "AT+PLAYFILE="

DeviceCommand(playing, cmd) ==
    IF IsPlayFileCommand(cmd) THEN TRUE
    ELSE IF cmd = "AT+PLAY=PP" THEN ~playing
    ELSE playing

\* the playing bit after the device has received cmds in order
RECURSIVE DeviceAfter(_, _)
DeviceAfter(playing, cmds) ==
    IF cmds = <<>> THEN playing
    ELSE DeviceAfter(DeviceCommand(playing, Head(cmds)), Tail(cmds))

\* a call of main.cpp on the audio object
Call(m, a) == [method |-> m, arg |-> a]

\* the AT commands a call sends
CallCommands(c) ==
    IF c.method = "setVolume" THEN setVolume(c.arg)
    ELSE IF c.method = "playTrack" THEN playTrack(c.arg)
    ELSE IF c.method = "pause" THEN pause
    ELSE beginCommands

RECURSIVE CommandsOf(_)
CommandsOf(cs) ==
    IF cs = <<>> THEN <<>>
    ELSE CallCommands(Head(cs)) \o CommandsOf(Tail(cs))

----------------------------------------------------------------------------
(* main.cpp                                                                *)

\* C integer division truncates toward zero
CDiv(a, b) ==
    IF (a >= 0) = (b > 0) THEN a \div b
    ELSE -((-a) \div b)

\* Arduino map(): (x - in_min) * (out_max - out_min) / (in_max - in_min) + out_min
map(x, in_min, in_max, out_min, out_max) ==
    CDiv((x - in_min) * (out_max - out_min), in_max - in_min) + out_min

\* int currentVolume = map(potValue, 0, 1023, MIN_VOLUME, MAX_VOLUME)
currentVolume(potValue) == map(potValue, 0, ADC_IN_MAX, MIN_VOLUME, MAX_VOLUME)

\* VolumeControl without the change gate: the volume is applied on every pass
VolumeControl_Ungated(lastVol, potValue) ==
    [lastVolume |-> currentVolume(potValue),
     calls |-> <<Call("setVolume", currentVolume(potValue))>>]

\* VOLUME CONTROL section of loop(): the new lastVolume and the calls made
VolumeControl(lastVol, potValue) ==
    IF currentVolume(potValue) # lastVol
    THEN [lastVolume |-> currentVolume(potValue),
          calls |-> <<Call("setVolume", currentVolume(potValue))>>]
    ELSE [lastVolume |-> lastVol, calls |-> <<>>]

\* the reconciler state of main.cpp
State(uid, playing, missed) ==
    [currentUID |-> uid, isPlaying |-> playing, missedReads |-> missed]

\* CardDetected that treats a read as a new card only when no card was
\* active (session-based instead of identity-based comparison)
CardDetected_SessionBased(st, uid) ==
    IF st.currentUID = EmptyString
    THEN IF trackForUID(uid) = 0
         THEN [st |-> State(uid, FALSE, 0),
               calls |-> IF st.isPlaying THEN <<Call("pause", 0)>> ELSE <<>>]
         ELSE [st |-> State(uid, TRUE, 0),
               calls |-> <<Call("playTrack", trackForUID(uid))>>]
    ELSE [st |-> State(st.currentUID, st.isPlaying, 0), calls |-> <<>>]

\* CardDetected without the uid != currentUID test: every read is a new card
CardDetected_AlwaysNew(st, uid) ==
    IF trackForUID(uid) = 0
    THEN [st |-> State(uid, FALSE, 0),
          calls |-> IF st.isPlaying THEN <<Call("pause", 0)>> ELSE <<>>]
    ELSE [st |-> State(uid, TRUE, 0),
          calls |-> <<Call("playTrack", trackForUID(uid))>>]

\* CardDetected that pauses for an unknown card whether or not music plays
CardDetected_UngatedPause(st, uid) ==
    IF uid # st.currentUID
    THEN IF trackForUID(uid) = 0
         THEN [st |-> State(uid, FALSE, 0), calls |-> <<Call("pause", 0)>>]
         ELSE [st |-> State(uid, TRUE, 0),
               calls |-> <<Call("playTrack", trackForUID(uid))>>]
    ELSE [st |-> State(st.currentUID, st.isPlaying, 0), calls |-> <<>>]

\* CardDetected that treats a card returning after a miss as a new card
CardDetected_ReplaysAfterMiss(st, uid) ==
    IF uid # st.currentUID \/ st.missedReads > 0
    THEN IF trackForUID(uid) = 0
         THEN [st |-> State(uid, FALSE, 0),
               calls |-> IF st.isPlaying THEN <<Call("pause", 0)>> ELSE <<>>]
         ELSE [st |-> State(uid, TRUE, 0),
               calls |-> <<Call("playTrack", trackForUID(uid))>>]
    ELSE [st |-> State(st.currentUID, st.isPlaying, 0), calls |-> <<>>]

\* CardDetected that resets missedReads only when the card is a new one
CardDetected_NoReset(st, uid) ==
    IF uid # st.currentUID
    THEN IF trackForUID(uid) = 0
         THEN [st |-> State(uid, FALSE, 0),
               calls |-> IF st.isPlaying THEN <<Call("pause", 0)>> ELSE <<>>]
         ELSE [st |-> State(uid, TRUE, 0),
               calls |-> <<Call("playTrack", trackForUID(uid))>>]
    ELSE [st |-> st, calls |-> <<>>]

\* CardDetected that starts a track only when none is playing
CardDetected_NoReplay(st, uid) ==
    IF uid # st.currentUID
    THEN IF trackForUID(uid) = 0
         THEN [st |-> State(uid, FALSE, 0),
               calls |-> IF st.isPlaying THEN <<Call("pause", 0)>> ELSE <<>>]
         ELSE [st |-> State(uid, TRUE, 0),
               calls |-> IF st.isPlaying THEN <<>>
                         ELSE <<Call("playTrack", trackForUID(uid))>>]
    ELSE [st |-> State(st.currentUID, st.isPlaying, 0), calls |-> <<>>]

\* CardDetected that pauses the old track before it starts the new one
CardDetected_PauseThenPlay(st, uid) ==
    IF uid # st.currentUID
    THEN IF trackForUID(uid) = 0
         THEN [st |-> State(uid, FALSE, 0),
               calls |-> IF st.isPlaying THEN <<Call("pause", 0)>> ELSE <<>>]
         ELSE [st |-> State(uid, TRUE, 0),
               calls |-> (IF st.isPlaying THEN <<Call("pause", 0)>> ELSE <<>>)
                            \o <<Call("playTrack", trackForUID(uid))>>]
    ELSE [st |-> State(st.currentUID, st.isPlaying, 0), calls |-> <<>>]

\* CARD DETECTION section of loop(), cardDetected == true
CardDetected(st, uid) ==
    IF uid # st.currentUID
    THEN IF trackForUID(uid) = 0
         THEN [st |-> State(uid, FALSE, 0),
               calls |-> IF st.isPlaying THEN <<Call("pause", 0)>> ELSE <<>>]
         ELSE [st |-> State(uid, TRUE, 0),
               calls |-> <<Call("playTrack", trackForUID(uid))>>]
    ELSE [st |-> State(st.currentUID, st.isPlaying, 0), calls |-> <<>>]

\* CardRemovalDetection that forgets missedReads = 0 on removal
CardRemovalDetection_KeepsCount(st) ==
    IF st.currentUID # EmptyString
    THEN IF st.missedReads + 1 >= REMOVAL_THRESHOLD
         THEN [st |-> State(EmptyString, FALSE, st.missedReads + 1),
               calls |-> IF st.isPlaying THEN <<Call("pause", 0)>> ELSE <<>>]
         ELSE [st |-> State(st.currentUID, st.isPlaying, st.missedReads + 1),
               calls |-> <<>>]
    ELSE [st |-> st, calls |-> <<>>]

\* CardRemovalDetection that counts misses without the currentUID != "" test
CardRemovalDetection_CountsIdle(st) ==
    IF st.missedReads + 1 >= REMOVAL_THRESHOLD
    THEN [st |-> State(EmptyString, FALSE, 0),
          calls |-> IF st.isPlaying THEN <<Call("pause", 0)>> ELSE <<>>]
    ELSE [st |-> State(st.currentUID, st.isPlaying, st.missedReads + 1),
          calls |-> <<>>]

\* CardRemovalDetection without debounce: the first miss is a removal
CardRemovalDetection_NoDebounce(st) ==
    IF st.currentUID # EmptyString
    THEN [st |-> State(EmptyString, FALSE, 0),
          calls |-> IF st.isPlaying THEN <<Call("pause", 0)>> ELSE <<>>]
    ELSE [st |-> st, calls |-> <<>>]

\* CardRemovalDetection with > in place of >= in the threshold test
CardRemovalDetection_OffByOne(st) ==
    IF st.currentUID # EmptyString
    THEN IF st.missedReads + 1 > REMOVAL_THRESHOLD
         THEN [st |-> State(EmptyString, FALSE, 0),
               calls |-> IF st.isPlaying THEN <<Call("pause", 0)>> ELSE <<>>]
         ELSE [st |-> State(st.currentUID, st.isPlaying, st.missedReads + 1),
               calls |-> <<>>]
    ELSE [st |-> st, calls |-> <<>>]

\* CardRemovalDetection that pauses on removal whether or not music plays
CardRemovalDetection_UngatedPause(st) ==
    IF st.currentUID # EmptyString
    THEN IF st.missedReads + 1 >= REMOVAL_THRESHOLD
         THEN [st |-> State(EmptyString, FALSE, 0),
               calls |-> <<Call("pause", 0)>>]
         ELSE [st |-> State(st.currentUID, st.isPlaying, st.missedReads + 1),
               calls |-> <<>>]
    ELSE [st |-> st, calls |-> <<>>]

\* CardRemovalDetection that forgets isPlaying = false on removal
CardRemovalDetection_KeepsPlaying(st) ==
    IF st.currentUID # EmptyString
    THEN IF st.missedReads + 1 >= REMOVAL_THRESHOLD
         THEN [st |-> State(EmptyString, st.isPlaying, 0),
               calls |-> IF st.isPlaying THEN <<Call("pause", 0)>> ELSE <<>>]
         ELSE [st |-> State(st.currentUID, st.isPlaying, st.missedReads + 1),
               calls |-> <<>>]
    ELSE [st |-> st, calls |-> <<>>]

\* CardRemovalDetection that forgets to clear currentUID on removal
CardRemovalDetection_KeepsUid(st) ==
    IF st.currentUID # EmptyString
    THEN IF st.missedReads + 1 >= REMOVAL_THRESHOLD
         THEN [st |-> State(st.currentUID, FALSE, 0),
               calls |-> IF st.isPlaying THEN <<Call("pause", 0)>> ELSE <<>>]
         ELSE [st |-> State(st.currentUID, st.isPlaying, st.missedReads + 1),
               calls |-> <<>>]
    ELSE [st |-> st, calls |-> <<>>]

\* CARD REMOVAL DETECTION section of loop(), cardDetected == false
CardRemovalDetection(st) ==
    IF st.currentUID # EmptyString
    THEN IF st.missedReads + 1 >= REMOVAL_THRESHOLD
         THEN [st |-> State(EmptyString, FALSE, 0),
               calls |-> IF st.isPlaying THEN <<Call("pause", 0)>> ELSE <<>>]
         ELSE [st |-> State(st.currentUID, st.isPlaying, st.missedReads + 1),
               calls |-> <<>>]
    ELSE [st |-> st, calls |-> <<>>]

\* loop() that returns at once while the audio object is not ready
LoopBody_SkipsWhenNotReady(rdy, lastVol, st, potValue, rd) ==
    IF rdy
    THEN LET vol  == VolumeControl(lastVol, potValue)
             card == IF rd.present THEN CardDetected(st, rd.uid)
                     ELSE CardRemovalDetection(st)
         IN  [lastVolume |-> vol.lastVolume, st |-> card.st,
              calls |-> vol.calls \o card.calls]
    ELSE [lastVolume |-> lastVol, st |-> st, calls |-> <<>>]

\* the body of loop() for the audio object's readiness rdy (never read),
\* lastVolume lastVol, reconciler state st, reading potValue and readCard
\* result rd
LoopBody(rdy, lastVol, st, potValue, rd) ==
    LET vol  == VolumeControl(lastVol, potValue)
        card == IF rd.present THEN CardDetected(st, rd.uid)
                ELSE CardRemovalDetection(st)
    IN  [lastVolume |-> vol.lastVolume, st |-> card.st,
         calls |-> vol.calls \o card.calls]

----------------------------------------------------------------------------
(* Observers                                                               *)

IsPlayback(c) == c.method \in {"playTrack", "pause"}

\* the playTrack and pause calls among cs, in order
PlaybackCalls(cs) == SelectSeq(cs, IsPlayback)

IsPause(c) == c.method = "pause"

IsPlayTrack(c) == c.method = "playTrack"

IsSetVolume(c) == c.method = "setVolume"

PauseCount(cs) == Len(SelectSeq(cs, IsPause))

PlayTrackCount(cs) == Len(SelectSeq(cs, IsPlayTrack))

SetVolumeCount(cs) == Len(SelectSeq(cs, IsSetVolume))

Min(a, b) == IF a < b THEN a ELSE b

\* the values of the state before a step
Snapshot ==
    [pc |-> pc, currentUID |-> currentUID, lastVolume |-> lastVolume,
     isPlaying |-> isPlaying, missedReads |-> missedReads, pot |-> pot,
     sample |-> sample, lastSeen |-> lastSeen, absentRun |-> absentRun,
     sameRun |-> sameRun, lastPlayback |-> lastPlayback]

Observe(rd, cs) ==
    /\ prev' = Snapshot
    /\ lastSeen' = IF rd.present THEN rd.uid ELSE lastSeen
    /\ absentRun' = IF rd.present THEN 0 ELSE Min(absentRun + 1, MaxRun)
    /\ sameRun' = IF ~rd.present THEN 0
                  ELSE IF sample.present /\ sample.uid = rd.uid
                       THEN Min(sameRun + 1, MaxSameRun)
                       ELSE 1
    /\ lastPlayback' = IF PlaybackCalls(cs) = <<>> THEN lastPlayback
                       ELSE PlaybackCalls(cs)[Len(PlaybackCalls(cs))].method
    /\ lastTrack' = IF SelectSeq(cs, IsPlayTrack) = <<>> THEN lastTrack
                    ELSE SelectSeq(cs, IsPlayTrack)[PlayTrackCount(cs)].arg

----------------------------------------------------------------------------
(* Actions                                                                 *)

Init ==
    /\ pc = "setup"
    /\ ready = FALSE
    /\ currentUID = EmptyString
    /\ lastVolume = LAST_VOLUME_INIT
    /\ isPlaying = FALSE
    /\ missedReads = 0
    /\ sent = <<>>
    /\ calls = <<>>
    /\ pot = <<>>
    /\ sample = NoCard
    /\ lastSeen = EmptyString
    /\ absentRun = 0
    /\ sameRun = 0
    /\ lastPlayback = "none"
    /\ lastTrack = 0
    /\ beginResult = <<>>
    /\ deviceUp \in BOOLEAN
    /\ devPlaying = FALSE
    /\ twin = [ready |-> FALSE, lastVolume |-> LAST_VOLUME_INIT,
               st |-> State(EmptyString, FALSE, 0), calls |-> <<>>]
    /\ prev = [pc |-> "setup", currentUID |-> EmptyString,
               lastVolume |-> LAST_VOLUME_INIT,
               isPlaying |-> FALSE, missedReads |-> 0, pot |-> <<>>,
               sample |-> NoCard, lastSeen |-> EmptyString, absentRun |-> 0,
               sameRun |-> 0, lastPlayback |-> "none"]

\* setup(): rfid.begin(), audio.begin()
setup ==
    /\ pc = "setup"
    /\ pc' = "loop"
    /\ ready' = begin(deviceUp).ready
    /\ beginResult' = <<begin(deviceUp).result>>
    /\ calls' = <<Call("begin", 0)>>
    /\ sent' = begin(deviceUp).sent
    /\ devPlaying' = IF deviceUp THEN DeviceAfter(devPlaying, begin(deviceUp).sent)
                     ELSE devPlaying
    /\ twin' = [twin EXCEPT !.ready = ~begin(deviceUp).ready]
    /\ prev' = Snapshot
    /\ UNCHANGED <<currentUID, lastVolume, isPlaying, missedReads, pot, sample,
                   lastSeen, absentRun, sameRun, lastPlayback, lastTrack,
                   deviceUp>>

\* one pass of loop() with potentiometer reading potValue and readCard
\* result rd
loop(potValue, rd) ==
    /\ pc = "loop"
    /\ pot' = <<potValue>>
    /\ sample' = rd
    /\ LET body == LoopBody(ready, lastVolume,
                            State(currentUID, isPlaying, missedReads),
                            potValue, rd)
           other == LoopBody(twin.ready, twin.lastVolume, twin.st,
                             potValue, rd)
       IN  /\ lastVolume' = body.lastVolume
           /\ currentUID' = body.st.currentUID
           /\ isPlaying' = body.st.isPlaying
           /\ missedReads' = body.st.missedReads
           /\ calls' = body.calls
           /\ twin' = [ready |-> twin.ready, lastVolume |-> other.lastVolume,
                       st |-> other.st, calls |-> other.calls]
    /\ sent' = CommandsOf(calls')
    /\ devPlaying' = IF deviceUp THEN DeviceAfter(devPlaying, sent')
                     ELSE devPlaying
    /\ Observe(rd, calls')
    /\ UNCHANGED <<pc, ready, beginResult, deviceUp>>

\* a pass in which readCard returns true
loopCardDetected ==
    \E potValue \in PotReadings, rd \in CardSamples : loop(potValue, rd)

\* a pass in which readCard returns false
loopNoCard ==
    \E potValue \in PotReadings : loop(potValue, NoCard)

Next == setup \/ loopCardDetected \/ loopNoCard

Spec == Init /\ [][Next]_vars

\* a pass with a reading above the 10-bit range and no card on the reader
loopHighReading ==
    \E potValue \in HighReadings : loop(potValue, NoCard)

WideNext == setup \/ loopNoCard \/ loopHighReading

\* the volume control driven with readings of the whole 12-bit range, no
\* card on the reader
WideSpec == Init /\ [][WideNext]_vars

\* a pass of loop(), whatever readCard returns
Tick == loopCardDetected \/ loopNoCard

\* setup() returns and loop() is called again and again, forever
LiveSpec == Init /\ [][Next]_vars /\ WF_vars(setup) /\ WF_vars(Tick)

----------------------------------------------------------------------------
(* Properties of the tick loop.  "The last pass" is the loop() pass that   *)
(* produced the current state; prev holds the state it started from.       *)

\* the last step was a pass of loop()
Ticked == prev.pc = "loop"

\* the reconciler state {empty, false, 0}
Idle == currentUID = EmptyString /\ ~isPlaying /\ missedReads = 0

PrevIdle ==
    prev.currentUID = EmptyString /\ ~prev.isPlaying /\ prev.missedReads = 0

\* the last pass left currentUID, isPlaying unchanged
IdentityKept == currentUID = prev.currentUID /\ isPlaying = prev.isPlaying

\* C1: at every tick boundary, isPlaying implies that currentUID is not
\* the empty string.
C1_PlayingImpliesActive == isPlaying => currentUID # EmptyString

C1_Witness == Ticked /\ isPlaying /\ currentUID # EmptyString

\* C2: at every tick boundary, missedReads > 0 implies that currentUID is
\* not the empty string.
C2_MissesOnlyWhileActive == missedReads > 0 => currentUID # EmptyString

C2_Witness == Ticked /\ missedReads > 0 /\ ~sample.present

\* C3: debounce.  After present samples of T, each of the next m absent
\* samples, 1 <= m < REMOVAL_THRESHOLD, issues neither pause nor playTrack
\* and leaves currentUID = T and isPlaying unchanged; a present sample of T
\* that ends such a gap issues no playTrack and no pause either and leaves
\* both unchanged.
C3_Debounce ==
    /\ (/\ ~sample.present
        /\ lastSeen # EmptyString
        /\ absentRun \in 1..(REMOVAL_THRESHOLD - 1))
       => /\ PlaybackCalls(calls) = <<>>
          /\ currentUID = lastSeen
          /\ IdentityKept
    /\ (/\ sample.present
        /\ prev.absentRun \in 1..(REMOVAL_THRESHOLD - 1)
        /\ prev.lastSeen = sample.uid)
       => /\ PlaybackCalls(calls) = <<>>
          /\ currentUID = sample.uid
          /\ IdentityKept

\* a mapped card returns after REMOVAL_THRESHOLD - 1 misses and keeps playing
C3_Witness ==
    /\ sample.present
    /\ prev.absentRun = REMOVAL_THRESHOLD - 1
    /\ prev.lastSeen = sample.uid
    /\ isPlaying
    /\ calls = <<>>

\* C4: removal.  After a present sample, absent samples 1..R-1 issue no
\* pause; the R-th absent sample issues one pause if isPlaying was true and
\* none otherwise, never a playTrack, and leaves {empty, false, 0}; the
\* (R+1)-th and later absent samples issue no playTrack or pause and leave
\* the reconciler state unchanged.
C4_Removal ==
    /\ (/\ ~sample.present
        /\ lastSeen # EmptyString
        /\ absentRun \in 1..(REMOVAL_THRESHOLD - 1))
       => PauseCount(calls) = 0
    /\ (/\ ~sample.present
        /\ lastSeen # EmptyString
        /\ absentRun = REMOVAL_THRESHOLD)
       => /\ PlaybackCalls(calls) =
                (IF prev.isPlaying THEN <<Call("pause", 0)>> ELSE <<>>)
          /\ Idle
    /\ (/\ ~sample.present
        /\ absentRun > REMOVAL_THRESHOLD)
       => /\ PlaybackCalls(calls) = <<>>
          /\ PrevIdle
          /\ Idle

\* the R-th miss of a playing card has just paused it
C4_Witness ==
    /\ ~sample.present
    /\ absentRun = REMOVAL_THRESHOLD
    /\ prev.isPlaying
    /\ PlaybackCalls(calls) = <<Call("pause", 0)>>
    /\ Idle

\* C5: re-insertion identity.  A present sample of T2 that directly follows
\* a present sample of T1 # T2 makes currentUID = T2 and issues, if T2 is
\* mapped, exactly playTrack(trackForUID(T2)) and no pause; if T2 is
\* unmapped, one pause when isPlaying was true and nothing otherwise.  This
\* holds for every length of the run of T1 samples.
C5_ReinsertionIdentity ==
    (/\ sample.present
     /\ prev.sample.present
     /\ prev.sample.uid # sample.uid)
    => /\ currentUID = sample.uid
       /\ IF trackForUID(sample.uid) # 0
          THEN /\ PlaybackCalls(calls) =
                     <<Call("playTrack", trackForUID(sample.uid))>>
               /\ isPlaying
          ELSE /\ PlaybackCalls(calls) =
                     (IF prev.isPlaying THEN <<Call("pause", 0)>> ELSE <<>>)
               /\ ~isPlaying

\* a mapped card replaces another mapped card that was read several times
C5_Witness ==
    /\ sample.present
    /\ prev.sample.present
    /\ prev.sameRun >= 2
    /\ prev.sample.uid # sample.uid
    /\ trackForUID(prev.sample.uid) # 0
    /\ trackForUID(sample.uid) # 0
    /\ PlayTrackCount(calls) = 1

\* C6: idempotence of the same token.  In a run of present samples of one
\* identity with no absent sample in between, the first issues at most one
\* playTrack/pause call and every later one issues none and leaves
\* currentUID and isPlaying unchanged.
C6_SameTokenIdempotent ==
    /\ (sample.present /\ sameRun = 1) => Len(PlaybackCalls(calls)) <= 1
    /\ (sample.present /\ sameRun >= 2)
       => /\ PlaybackCalls(calls) = <<>>
          /\ currentUID = sample.uid
          /\ IdentityKept

\* the third read in a row of a playing card
C6_Witness ==
    /\ sample.present
    /\ sameRun >= 3
    /\ isPlaying
    /\ PlaybackCalls(calls) = <<>>

\* C7: unmapped-card pause gating.  A present sample of an unmapped UID
\* that differs from currentUID issues no pause when isPlaying was false
\* and exactly one when it was true, never a playTrack, and leaves
\* isPlaying false.
C7_UnmappedPauseGating ==
    (/\ sample.present
     /\ trackForUID(sample.uid) = 0
     /\ sample.uid # prev.currentUID)
    => /\ PauseCount(calls) = (IF prev.isPlaying THEN 1 ELSE 0)
       /\ PlayTrackCount(calls) = 0
       /\ ~isPlaying

\* an unmapped card directly replaces a mapped, playing one
C7_Witness ==
    /\ sample.present
    /\ trackForUID(sample.uid) = 0
    /\ prev.sample.present
    /\ trackForUID(prev.sample.uid) # 0
    /\ prev.isPlaying
    /\ PauseCount(calls) = 1
    /\ ~isPlaying

\* C8: every pause call is made with isPlaying true and leaves it false, a
\* pass makes at most one, and the playback call before it was a playTrack
\* (never another pause, never none).
C8_PauseGated ==
    PauseCount(calls) > 0
    => /\ PauseCount(calls) = 1
       /\ prev.isPlaying
       /\ ~isPlaying
       /\ prev.lastPlayback = "playTrack"
       /\ \E i \in 1..Len(sent) : sent[i] = "AT+PLAY=PP"

\* a second pause, after a playTrack that followed the first
C8_Witness ==
    /\ PauseCount(calls) = 1
    /\ prev.lastPlayback = "playTrack"
    /\ lastPlayback = "pause"
    /\ ~sample.present
    /\ prev.lastSeen # EmptyString
    /\ trackForUID(prev.lastSeen) # 0

\* C9: removal eventually stops playback.  Once REMOVAL_THRESHOLD absent
\* samples in a row have been read the reconciler state is {empty, false,
\* 0}, and the pass that read the REMOVAL_THRESHOLD-th one paused a playing
\* track; while passes keep running and no present sample arrives the idle
\* state is reached; and an absent sample read in the idle state leaves it
\* idle and issues no playTrack or pause.
C9_RemovalEventuallyStops ==
    /\ [](absentRun >= REMOVAL_THRESHOLD => Idle)
    /\ []((/\ absentRun = REMOVAL_THRESHOLD
           /\ lastSeen # EmptyString
           /\ prev.isPlaying)
          => PlaybackCalls(calls) = <<Call("pause", 0)>>)
    /\ ((pc = "loop" /\ ~sample.present) ~> (sample.present \/ Idle))
    /\ [][(Idle /\ ~sample'.present)
            => (Idle' /\ PlaybackCalls(calls') = <<>>)]_vars

\* long after the removal of a mapped card the loop is still idle
C9_Witness ==
    /\ absentRun = MaxRun
    /\ lastSeen # EmptyString
    /\ trackForUID(lastSeen) # 0
    /\ Idle
    /\ PlaybackCalls(calls) = <<>>

\* C10: volume change gating.  A pass calls setVolume exactly once, with
\* the mapped reading, when that differs from lastVolume and not at all
\* when it is equal; lastVolume then holds the mapped reading; a pass whose
\* mapped reading equals that of the pass before calls no setVolume.
C10_VolumeChangeGated ==
    Ticked
    => /\ lastVolume = currentVolume(pot[1])
       /\ SelectSeq(calls, IsSetVolume) =
             (IF currentVolume(pot[1]) # prev.lastVolume
              THEN <<Call("setVolume", currentVolume(pot[1]))>>
              ELSE <<>>)
       /\ (prev.pot # <<>> /\ currentVolume(prev.pot[1]) = currentVolume(pot[1]))
          => SetVolumeCount(calls) = 0

\* two different raw readings that map to the same volume: no second call
C10_Witness ==
    /\ Ticked
    /\ prev.pot # <<>>
    /\ prev.pot # pot
    /\ currentVolume(prev.pot[1]) = currentVolume(pot[1])
    /\ SetVolumeCount(calls) = 0

\* C11: every value a pass hands to setVolume lies in
\* MIN_VOLUME..MAX_VOLUME, whatever the raw reading.
C11_VolumeClamped ==
    \A i \in 1..Len(calls) :
        calls[i].method = "setVolume"
        => calls[i].arg \in MIN_VOLUME..MAX_VOLUME

\* C12: a pass issues at most one playback call: never playTrack together
\* with pause, never one of them twice.
C12_OnePlaybackCallPerTick == Len(PlaybackCalls(calls)) <= 1

\* a pass that applied a new volume and started a track
C12_Witness ==
    /\ Ticked
    /\ Len(calls) = 2
    /\ SetVolumeCount(calls) = 1
    /\ PlayTrackCount(calls) = 1
    /\ prev.isPlaying

\* C13: once setup() has run, the value begin() returned and isReady() both
\* tell whether the DFPlayer initialized.
C13_ReadinessReflectsDevice ==
    pc = "loop" => (beginResult = <<deviceUp>> /\ ready = deviceUp)

C15_FirstTickSetsVolume ==
    /\ (Ticked /\ prev.pot = <<>>)
       => SelectSeq(calls, IsSetVolume)
             = <<Call("setVolume", currentVolume(pot[1]))>>
    /\ \A p \in 0..ADC_IN_MAX : currentVolume(p) # LAST_VOLUME_INIT

\* the first pass read the lowest reading, which maps to MIN_VOLUME
C15_Witness ==
    /\ Ticked
    /\ prev.pot = <<>>
    /\ pot = <<0>>
    /\ calls = <<Call("setVolume", MIN_VOLUME)>>

\* the last pass reset currentUID to "" on an absent sample
RemovalEvent ==
    /\ Ticked
    /\ ~sample.present
    /\ prev.currentUID # EmptyString
    /\ currentUID = EmptyString

\* C16: removal requires REMOVAL_THRESHOLD consecutive misses.  Every
\* present sample leaves missedReads = 0, and a pass is a removal event
\* exactly when its sample is the REMOVAL_THRESHOLD-th absent one in a row
\* after a present sample.
C16_RemovalNeedsConsecutiveMisses ==
    /\ sample.present => missedReads = 0
    /\ RemovalEvent
       <=> (/\ ~sample.present
            /\ lastSeen # EmptyString
            /\ absentRun = REMOVAL_THRESHOLD)

\* an unknown card is removed: a removal event without any call
C16_Witness ==
    /\ RemovalEvent
    /\ absentRun = REMOVAL_THRESHOLD
    /\ trackForUID(lastSeen) = 0
    /\ PlaybackCalls(calls) = <<>>

\* C17: main.cpp never calls AudioPlayer::pause(), so AT+PLAY=PP is never
\* sent; the pass that removes or replaces a playing card calls
\* setVolume(0) instead.
C17_NeverCallsPause ==
    /\ PauseCount(calls) = 0
    /\ \A i \in 1..Len(sent) : sent[i] # "AT+PLAY=PP"
    /\ (Ticked /\ prev.isPlaying /\ currentUID # prev.currentUID)
       => \E i \in 1..Len(calls) : calls[i] = Call("setVolume", 0)

\* track numbers with the file names AudioPlayer.cpp and CardRouter.cpp
\* document for them
TrackFiles ==
    { <<1, "/0001.mp3">>, <<6, "/0006.mp3">>, <<9, "/0009.mp3">>,
      <<10, "/0010.mp3">>, <<42, "/0042.mp3">>, <<99, "/0099.mp3">>,
      <<100, "/0100.mp3">>, <<999, "/0999.mp3">>, <<1000, "/1000.mp3">>,
      <<9999, "/9999.mp3">> }

\* C18: playTrack(track) with track # 0 sends AT+PLAYFILE=<file of track>
\* and then AT+PLAYMODE=1 and nothing else; playTrack(0) sends nothing; a
\* pass that calls playTrack sends these two commands last, one after the
\* other, and no AT+PLAY=PP, whether or not a track was playing.
C18_PlayTrackEnforcesLoop ==
    /\ playTrack(0) = <<>>
    /\ \A f \in TrackFiles :
          playTrack(f[1]) = <<"AT+PLAYFILE=" \o f[2], "AT+PLAYMODE=1">>
    /\ PlayTrackCount(calls) > 0
       => /\ Len(sent) >= 2
          /\ \E f \in TrackFiles :
                /\ f[1] = SelectSeq(calls, IsPlayTrack)[1].arg
                /\ sent[Len(sent) - 1] = "AT+PLAYFILE=" \o f[2]
          /\ sent[Len(sent)] = "AT+PLAYMODE=1"
          /\ \A i \in 1..Len(sent) : sent[i] # "AT+PLAY=PP"

\* card 6 replaces a playing card: the file is started without a pause
C18_Witness ==
    /\ prev.isPlaying
    /\ calls = <<Call("playTrack", 6)>>
    /\ sent = <<"AT+PLAYFILE=/0006.mp3", "AT+PLAYMODE=1">>

\* C19: with a connected DFPlayer that starts not playing, starts playing
\* on AT+PLAYFILE and toggles on AT+PLAY=PP, the device plays exactly when
\* isPlaying is true, at every tick boundary; after a pass that called
\* pause the device is not playing.
C19_DeviceFollowsIsPlaying ==
    deviceUp
    => /\ devPlaying = isPlaying
       /\ PauseCount(calls) > 0 => ~devPlaying

\* a pause has just stopped the device
C19_Witness ==
    /\ deviceUp
    /\ prev.isPlaying
    /\ PauseCount(calls) = 1
    /\ ~devPlaying
    /\ ~isPlaying

\* C20: while isPlaying is true the most recent playTrack call was made
\* with trackForUID(currentUID), which is not 0; playTrack is never called
\* with 0.
C20_PlayingTrackMatchesCard ==
    /\ isPlaying
       => (lastTrack = trackForUID(currentUID) /\ lastTrack # 0)
    /\ \A i \in 1..Len(calls) :
          calls[i].method = "playTrack" => calls[i].arg # 0

\* card 6 has replaced card 1 while card 1 was playing
C20_Witness ==
    /\ isPlaying
    /\ prev.isPlaying
    /\ prev.currentUID = UID_TRACK_1
    /\ currentUID = UID_TRACK_6
    /\ lastTrack = 6

\* C21: missedReads is bounded.  At every tick boundary
\* 0 <= missedReads < REMOVAL_THRESHOLD: the pass in which the counter
\* reaches REMOVAL_THRESHOLD resets it to 0.
C21_MissedReadsBounded ==
    /\ missedReads \in 0..(REMOVAL_THRESHOLD - 1)
    /\ twin.st.missedReads \in 0..(REMOVAL_THRESHOLD - 1)
    /\ RemovalEvent => missedReads = 0

\* the counter stood at REMOVAL_THRESHOLD - 1 and the removal pass reset it
C21_Witness ==
    /\ RemovalEvent
    /\ prev.missedReads = REMOVAL_THRESHOLD - 1
    /\ missedReads = 0

\* C22: re-insertion after a removal restarts the track.  When a removal
\* has emptied currentUID (a card was seen before and currentUID is ""), a
\* present sample of a mapped card, the removed one included, calls
\* playTrack(trackForUID(uid)) exactly once in that pass, and no pause, and
\* sets isPlaying; a present sample of the card seen last that comes after
\* fewer than REMOVAL_THRESHOLD absent samples makes no playTrack or pause
\* call.
C22_ReinsertionRestarts ==
    /\ (/\ Ticked
        /\ sample.present
        /\ trackForUID(sample.uid) # 0
        /\ prev.currentUID = EmptyString
        /\ prev.lastSeen # EmptyString)
       => /\ PlaybackCalls(calls)
               = <<Call("playTrack", trackForUID(sample.uid))>>
          /\ isPlaying
          /\ currentUID = sample.uid
    /\ (/\ Ticked
        /\ sample.present
        /\ sample.uid = prev.lastSeen
        /\ prev.absentRun < REMOVAL_THRESHOLD)
       => /\ PlaybackCalls(calls) = <<>>
          /\ isPlaying = prev.isPlaying

\* card 1 was removed and is inserted again: its track is started again
C22_Witness ==
    /\ Ticked
    /\ sample.present
    /\ sample.uid = UID_TRACK_1
    /\ prev.lastSeen = UID_TRACK_1
    /\ prev.currentUID = EmptyString
    /\ prev.absentRun >= REMOVAL_THRESHOLD
    /\ PlaybackCalls(calls) = <<Call("playTrack", 1)>>
    /\ isPlaying

====
